---- MODULE Spec2Model ----
(***************************************************************************)
(* Model of the anime recommendation engine (src/animeml.py): the build    *)
(* pipeline that runs once at import (create_tags, TF-IDF vectorizer,      *)
(* cosine similarity, the two title maps) and the three query functions    *)
(* recommend, search_titles and get_random.                                *)
(*                                                                         *)
(* Text.  A Python string is a sequence of units.  A unit is a TLA+ string: *)
(* a single letter ("a", "A", "b", ...), the space " ", the comma ",", or  *)
(* a word unit ("Action", "movie_format", ...) that stands for a run of at *)
(* least two word characters the model never looks inside.  Case, substring *)
(* search, splitting and tokenizing all work on unit sequences.            *)
(*                                                                         *)
(* Numbers.  A numeric cell of the table is [kind |-> "nan"] (missing),    *)
(* [kind |-> "bad"] (text that does not parse) or [kind |-> "num",         *)
(* tenths |-> t], the number t/10.                                         *)
(***************************************************************************)
EXTENDS Integers, Sequences, FiniteSets, TLC

VARIABLES
    phase,                  \* "load", "tagged", "projected", "vectorized", "similar", "ready"; or "failed"
    df,                     \* the dataset: a sequence of rows (df after line 23)
    tags,                   \* df['tags']: one tag string per row (line 101)
    metadata,               \* the metadata table (line 109)
    vectorized,             \* the feature matrix (line 121)
    sim,                    \* the similarity matrix (line 126)
    title_to_index,         \* exact title -> row labels (line 129)
    title_to_index_lower,   \* lowercased title -> row labels (line 130)
    call,                   \* the query in flight, or NoCall
    ret                     \* what the query in flight returned or raised

vars == <<phase, df, tags, metadata, vectorized, sim,
          title_to_index, title_to_index_lower, call, ret>>

built == <<df, tags, metadata, vectorized, sim, title_to_index, title_to_index_lower>>

----------------------------------------------------------------------------
(* Text *)

\* A missing cell (NaN) of a text column.  read_csv never yields this unit.
NaN == <<"<NaN>">>

notna(s) == s # NaN

Space == " "
Comma == ","

\* str.lower on one unit.
LowerUnit(u) ==
    CASE u = "A" -> "a"
      [] u = "B" -> "b"
      [] u = "Action" -> "action"
      [] u = "Drama" -> "drama"
      [] u = "Slice" -> "slice"
      [] u = "Life" -> "life"
      [] u = "TV" -> "tv"
      [] u = "Movie" -> "movie"
      [] u = "Manga" -> "manga"
      [] u = "Madhouse" -> "madhouse"
      [] u = "Apr" -> "apr"
      [] OTHER -> u

\* str.lower
Lower(s) == [i \in DOMAIN s |-> LowerUnit(s[i])]

\* s[a..b], empty when a > b
Slice(s, a, b) == [i \in 1..(b - a + 1) |-> s[a + i - 1]]

\* Python's `q in s` on strings: q occurs in s as a contiguous run.
Contains(s, q) ==
    \E k \in 0..(Len(s) - Len(q)) : Slice(s, k + 1, k + Len(q)) = q

\* str.replace(',', ' ')
ReplaceCommas(s) == [i \in DOMAIN s |-> IF s[i] = Comma THEN Space ELSE s[i]]

\* The maximal runs of units of s outside seps, in order.
RECURSIVE RunsFrom(_, _, _, _)
RunsFrom(s, seps, i, cur) ==
    IF i > Len(s)
    THEN IF cur = <<>> THEN <<>> ELSE <<cur>>
    ELSE IF s[i] \in seps
         THEN (IF cur = <<>> THEN <<>> ELSE <<cur>>) \o RunsFrom(s, seps, i + 1, <<>>)
         ELSE RunsFrom(s, seps, i + 1, Append(cur, s[i]))

\* str.split(): the maximal runs of non-space units.
Split(s) == RunsFrom(s, {Space}, 1, <<>>)

\* ' '.join(list)
RECURSIVE Join(_)
Join(list) ==
    IF list = <<>> THEN <<>>
    ELSE IF Len(list) = 1 THEN list[1]
    ELSE list[1] \o <<Space>> \o Join(Tail(list))

\* A one-unit string.
Word(u) == <<u>>

----------------------------------------------------------------------------
(* Numbers *)

NanNum == [kind |-> "nan"]
BadNum == [kind |-> "bad"]
Num(t) == [kind |-> "num", tenths |-> t]

\* int(x) of a number: truncation toward zero.
IntOf(t) == IF t >= 0 THEN t \div 10 ELSE -((-t) \div 10)

----------------------------------------------------------------------------
(* create_tags, lines 27-98 *)

\* re.findall(r'\b(19\d{2}|20\d{2})\b', text): the units of the text that
\* spell a four-digit year 19xx or 20xx, in order.  The table lists the
\* numerals the model's texts use; "3" and "12345" are numerals that do not
\* match the pattern.
YearTable ==
    [u \in {"1998", "2005", "2015", "2021"} |->
        CASE u = "1998" -> 1998
          [] u = "2005" -> 2005
          [] u = "2015" -> 2015
          [] u = "2021" -> 2021]

IsYear(u) == u \in DOMAIN YearTable

FindYears(text) == SelectSeq(text, IsYear)

\* lines 31-32: the title, three times
TitleTags(row) ==
    IF notna(row.title) THEN <<row.title, row.title, row.title>> ELSE <<>>

\* lines 35-37: the genre list, twice (list repetition: g1 g2 g1 g2)
GenreTags(row) ==
    IF notna(row.genre)
    THEN LET genres == Split(ReplaceCommas(row.genre)) IN genres \o genres
    ELSE <<>>

\* lines 40-44
TypeTags(row) == IF notna(row.type) THEN <<row.type>> ELSE <<>>

SourceTags(row) == IF notna(row.source) THEN <<row.source>> ELSE <<>>

\* lines 47-49: one list element, commas turned into spaces
StudioTags(row) ==
    IF notna(row.studio) THEN <<ReplaceCommas(row.studio)>> ELSE <<>>

\* lines 52-62: float() of a cell that does not parse raises, and the bare
\* except swallows it
ScoreTags(row) ==
    IF row.score.kind = "num"
    THEN LET score == row.score.tenths IN
         IF score >= 80 THEN <<Word("highly_rated")>>
         ELSE IF score >= 70 THEN <<Word("well_rated")>>
         ELSE IF score >= 60 THEN <<Word("decent_rated")>>
         ELSE <<>>
    ELSE <<>>

\* lines 65-77
EpisodeTags(row) ==
    IF row.episodes.kind = "num"
    THEN LET eps == IntOf(row.episodes.tenths) IN
         IF eps = 1 THEN <<Word("movie_format")>>
         ELSE IF eps <= 13 THEN <<Word("short_series")>>
         ELSE IF eps <= 26 THEN <<Word("standard_series")>>
         ELSE <<Word("long_series")>>
    ELSE <<>>

\* lines 80-96
EraTags(row) ==
    IF notna(row.aired)
    THEN LET years == FindYears(row.aired) IN
         IF years # <<>>
         THEN LET year == YearTable[years[1]] IN
              IF year >= 2020 THEN <<Word("recent_anime")>>
              ELSE IF year >= 2010 THEN <<Word("modern_era")>>
              ELSE IF year >= 2000 THEN <<Word("early_2000s")>>
              ELSE <<Word("classic_anime")>>
         ELSE <<>>
    ELSE <<>>

\* The list `tags` at line 98, before the join.
TagList(row) ==
    TitleTags(row) \o GenreTags(row) \o TypeTags(row) \o SourceTags(row)
        \o StudioTags(row) \o ScoreTags(row) \o EpisodeTags(row) \o EraTags(row)

create_tags(row) == Join(TagList(row))

----------------------------------------------------------------------------
(* TfidfVectorizer(max_features=5000, stop_words='english',               *)
(* ngram_range=(1, 2), min_df=2, max_df=0.8).fit_transform, lines 113-121 *)

Letters == {"a", "A", "b", "B"}

\* Characters a unit spells: a letter is one, a word unit at least two.
UnitLen(u) == IF u \in Letters THEN 1 ELSE 2

RECURSIVE StrLen(_)
StrLen(s) == IF s = <<>> THEN 0 ELSE UnitLen(Head(s)) + StrLen(Tail(s))

\* The part of sklearn's English stop-word list the model's texts can hit.
StopWords == {<<"of">>, <<"the">>, <<"to">>}

\* The default token_pattern (?u)\b\w\w+\b on the lowercased text: maximal
\* runs of word characters that are at least two characters long.
Tokenize(doc) ==
    LET runs == RunsFrom(Lower(doc), {Space, Comma}, 1, <<>>)
        long(r) == StrLen(r) >= 2
    IN  SelectSeq(runs, long)

NotStopWord(t) == t \notin StopWords

\* Unigrams then bigrams of the tokens left after stop-word removal.
Analyze(doc) ==
    LET toks == SelectSeq(Tokenize(doc), NotStopWord)
        bigrams == [k \in 1..(Len(toks) - 1) |-> toks[k] \o <<Space>> \o toks[k + 1]]
    IN  IF Len(toks) = 0 THEN <<>> ELSE toks \o bigrams

Range(f) == {f[x] : x \in DOMAIN f}

\* Occurrences of term t in the analyzed document a.
Count(a, t) == Cardinality({k \in DOMAIN a : a[k] = t})

\* Document frequency of t over the analyzed corpus.
DocFreq(corpus, t) == Cardinality({d \in DOMAIN corpus : Count(corpus[d], t) > 0})

\* Corpus-wide term count, what max_features ranks by.
TotalCount(corpus, t) ==
    LET RECURSIVE Sum(_)
        Sum(d) == IF d = 0 THEN 0 ELSE Count(corpus[d], t) + Sum(d - 1)
    IN  Sum(Len(corpus))

max_features == 5000
min_df == 2
\* max_df = 0.8 as a fraction of the corpus size: df <= 0.8 * n
max_df_num == 8
max_df_den == 10

AllTerms(corpus) == UNION {Range(corpus[d]) : d \in DOMAIN corpus}

\* _limit_features: the terms with min_df <= df <= max_df * n.
InDfRange(corpus, t) ==
    LET n == Len(corpus)
        d == DocFreq(corpus, t)
    IN  d >= min_df /\ d * max_df_den <= max_df_num * n

\* The max_features cap: the highest corpus-wide counts (it never binds on a
\* corpus this small).
Capped(corpus, kept) ==
    IF Cardinality(kept) <= max_features THEN kept
    ELSE CHOOSE top \in SUBSET kept :
            /\ Cardinality(top) = max_features
            /\ \A t \in top, u \in kept \ top :
                  TotalCount(corpus, t) >= TotalCount(corpus, u)

Vocabulary(corpus) == Capped(corpus, {t \in AllTerms(corpus) : InDfRange(corpus, t)})

\* fit_transform raises ValueError: an empty vocabulary, max_df below min_df
\* in documents, or nothing left after pruning.
VectorizerFails(corpus) ==
    \/ AllTerms(corpus) = {}
    \/ max_df_num * Len(corpus) < min_df * max_df_den
    \/ Vocabulary(corpus) = {}

\* The smoothed idf, ln((1 + n) / (1 + df)) + 1, in tenths, rounded.
Idf10(n, d) ==
    CASE n = 3 /\ d = 2 -> 13
      [] n = 4 /\ d = 2 -> 15
      [] n = 4 /\ d = 3 -> 12
      [] n = 5 /\ d = 2 -> 17
      [] n = 5 /\ d = 3 -> 14
      [] n = 5 /\ d = 4 -> 12
      [] n = 6 /\ d = 2 -> 18
      [] n = 6 /\ d = 3 -> 16
      [] n = 6 /\ d = 4 -> 13

\* One row of the feature matrix: tf * idf per vocabulary term.  The L2
\* normalisation of the row is left to Cosine, which divides by the norms.
FeatureRow(corpus, vocab, d) ==
    [t \in vocab |-> Count(corpus[d], t) * Idf10(Len(corpus), DocFreq(corpus, t))]

FitTransform(docs) ==
    LET corpus == [d \in DOMAIN docs |-> Analyze(docs[d])]
        vocab == Vocabulary(corpus)
    IN  [d \in DOMAIN docs |-> FeatureRow(corpus, vocab, d)]

----------------------------------------------------------------------------
(* cosine_similarity, line 126 *)

RECURSIVE SumOver(_, _)
SumOver(f, S) ==
    IF S = {} THEN 0
    ELSE LET x == CHOOSE y \in S : TRUE IN f[x] + SumOver(f, S \ {x})

Dot(u, v) == SumOver([t \in DOMAIN u |-> u[t] * v[t]], DOMAIN u)

RECURSIVE Gcd(_, _)
Gcd(a, b) == IF b = 0 THEN a ELSE Gcd(b, a % b)

\* A similarity is kept exactly, as the square of the cosine in lowest
\* terms; cosines of non-negative vectors are >= 0, so squares order alike.
Frac(a, b) == LET g == Gcd(a, b) IN [num |-> a \div g, den |-> b \div g]

Zero == Frac(0, 1)
One == Frac(1, 1)

\* Variant: the raw product of the rows, with no division by the norms.
CosineUnnormalised(u, v) == LET uv == Dot(u, v) IN Frac(uv * uv, 1)

\* normalize() leaves an all-zero row as it is (its norm is taken as 1), so
\* every product with it is 0.
Cosine(u, v) ==
    LET uu == Dot(u, u)
        vv == Dot(v, v)
        uv == Dot(u, v)
    IN  IF uu = 0 \/ vv = 0 THEN Zero ELSE Frac(uv * uv, uu * vv)

cosine_similarity(X) == [i \in DOMAIN X |-> [j \in DOMAIN X |-> Cosine(X[i], X[j])]]

\* a/b < c/d for b, d > 0, by continued fractions (no product is formed).
RECURSIVE FracLess(_, _, _, _)
FracLess(a, b, c, d) ==
    LET qa == a \div b
        qc == c \div d
        ra == a % b
        rc == c % d
    IN  IF qa # qc THEN qa < qc
        ELSE IF rc = 0 THEN FALSE
        ELSE IF ra = 0 THEN TRUE
        ELSE FracLess(d, rc, b, ra)

Less(x, y) == FracLess(x.num, x.den, y.num, y.den)

----------------------------------------------------------------------------
(* The title maps, lines 128-130 *)

\* pd.Series(values, index=labels): entries in row order.
Series(labels) == [i \in DOMAIN labels |-> [label |-> labels[i], value |-> i]]

\* Series.drop_duplicates(): drops the entries whose VALUE occurred earlier
\* (keep='first'); the labels play no part.
RECURSIVE DropFrom(_, _)
DropFrom(s, k) ==
    IF k > Len(s) THEN <<>>
    ELSE (IF \E j \in 1..(k - 1) : s[j].value = s[k].value THEN <<>> ELSE <<s[k]>>)
            \o DropFrom(s, k + 1)

drop_duplicates(s) == DropFrom(s, 1)

\* df['title'].str.lower(): a missing title stays missing
StrLower(col) == [i \in DOMAIN col |-> IF notna(col[i]) THEN Lower(col[i]) ELSE NaN]

TitleColumn(d) == [i \in DOMAIN d |-> d[i].title]

\* `key in series`: the key is one of the labels
Has(s, key) == \E k \in DOMAIN s : s[k].label = key

\* series[key]: the values under the label, in order.  One value is a
\* scalar; several come back as a Series.
Lookup(s, key) ==
    LET hit(e) == e.label = key
        hits == SelectSeq(s, hit)
    IN  [k \in DOMAIN hits |-> hits[k].value]

----------------------------------------------------------------------------
(* recommend, lines 136-201 *)

ValueError == [kind |-> "raise", error |-> "ValueError"]
Returned(v) == [kind |-> "return", value |-> v]

\* Variant: the exact match only.
ResolveExactOnly(title) ==
    IF Has(title_to_index, title) THEN Lookup(title_to_index, title) ELSE <<>>

\* lines 148-153: exact match first, then the lowercased query against the
\* lowercased titles.  <<>> is None.
Resolve(title) ==
    IF Has(title_to_index, title) THEN Lookup(title_to_index, title)
    ELSE IF Has(title_to_index_lower, Lower(title))
         THEN Lookup(title_to_index_lower, Lower(title))
         ELSE <<>>

\* Variant: a row goes before the rows that score the same (what sorting
\* ascending and reversing the result does to ties).
RECURSIVE InsertDescTiesFirst(_, _, _)
InsertDescTiesFirst(row, sorted, i) ==
    IF sorted = <<>> THEN <<i>>
    ELSE IF ~Less(row[i], row[Head(sorted)]) THEN <<i>> \o sorted
    ELSE <<Head(sorted)>> \o InsertDescTiesFirst(row, Tail(sorted), i)

\* list.sort(reverse=True, key=score) on list(enumerate(row)): descending,
\* stable, so equal scores keep ascending row order.  Insertion from the
\* left: a row goes before the first row already placed that scores less.
RECURSIVE InsertDesc(_, _, _)
InsertDesc(row, sorted, i) ==
    IF sorted = <<>> THEN <<i>>
    ELSE IF Less(row[Head(sorted)], row[i]) THEN <<i>> \o sorted
    ELSE <<Head(sorted)>> \o InsertDesc(row, Tail(sorted), i)

RECURSIVE SortedUpTo(_, _)
SortedUpTo(row, k) ==
    IF k = 0 THEN <<>> ELSE InsertDesc(row, SortedUpTo(row, k - 1), k)

SortDesc(row) == SortedUpTo(row, Len(row))

\* round(float(score), 4), in units of 0.0001: the k nearest 10000 * cosine,
\* i.e. the largest k with (k - 1/2)^2 <= cosine^2, found by bisection.
RECURSIVE Bisect(_, _, _)
Bisect(x, lo, hi) ==
    IF lo = hi THEN lo
    ELSE LET mid == (lo + hi + 1) \div 2
             ok == ~FracLess(x.num, x.den, (2 * mid - 1) * (2 * mid - 1), 400000000)
         IN  IF ok THEN Bisect(x, mid, hi) ELSE Bisect(x, lo, mid - 1)

Round4(x) == Bisect(x, 0, 10000)

\* lines 181-194: the record of row idx.  `row` is not a key of the Python
\* dict: it records which row the record was built from.
OptionalText(m, col) == IF notna(m[col]) THEN (col :> m[col]) ELSE <<>>
OptionalNum(m, col) == IF m[col].kind # "nan" THEN (col :> m[col]) ELSE <<>>

RecordOf(idx, score) ==
    LET m == metadata[idx] IN
    [row |-> idx, title |-> m.title, genre |-> m.genre, type |-> m.type,
     source |-> m.source, similarity |-> Round4(score)]
        @@ OptionalNum(m, "score") @@ OptionalNum(m, "episodes")
        @@ OptionalText(m, "aired") @@ OptionalText(m, "studio")

\* Variant: the resolved row is not skipped.
RECURSIVE CollectWithSelf(_, _, _, _, _, _)
CollectWithSelf(index, order, k, seen_titles, recommendations, top_n) ==
    IF k > Len(order) THEN recommendations
    ELSE LET idx == order[k]
             anime_title == metadata[idx].title
         IN  IF anime_title \in seen_titles
             THEN CollectWithSelf(index, order, k + 1, seen_titles, recommendations, top_n)
             ELSE LET recs == Append(recommendations, RecordOf(idx, sim[index][idx])) IN
                  IF Len(recs) = top_n THEN recs
                  ELSE CollectWithSelf(index, order, k + 1, seen_titles \cup {anime_title},
                                       recs, top_n)

\* Variant: the loop stops one record late.
RECURSIVE CollectOneMore(_, _, _, _, _, _)
CollectOneMore(index, order, k, seen_titles, recommendations, top_n) ==
    IF k > Len(order) THEN recommendations
    ELSE LET idx == order[k]
             anime_title == metadata[idx].title
         IN  IF idx = index
             THEN CollectOneMore(index, order, k + 1, seen_titles, recommendations, top_n)
             ELSE IF anime_title \in seen_titles
             THEN CollectOneMore(index, order, k + 1, seen_titles, recommendations, top_n)
             ELSE LET recs == Append(recommendations, RecordOf(idx, sim[index][idx])) IN
                  IF Len(recs) > top_n THEN recs
                  ELSE CollectOneMore(index, order, k + 1, seen_titles \cup {anime_title},
                                      recs, top_n)

\* lines 164-201: the loop over the sorted rows.
RECURSIVE Collect(_, _, _, _, _, _)
Collect(index, order, k, seen_titles, recommendations, top_n) ==
    IF k > Len(order) THEN recommendations
    ELSE LET idx == order[k]
             anime_title == metadata[idx].title
         IN  IF idx = index
             THEN Collect(index, order, k + 1, seen_titles, recommendations, top_n)
             ELSE IF anime_title \in seen_titles
             THEN Collect(index, order, k + 1, seen_titles, recommendations, top_n)
             ELSE LET recs == Append(recommendations, RecordOf(idx, sim[index][idx])) IN
                  IF Len(recs) = top_n THEN recs
                  ELSE Collect(index, order, k + 1, seen_titles \cup {anime_title},
                               recs, top_n)

\* A title found under several labels comes back as a Series; sim[Series]
\* is then a 2-D array, its rows do not compare, and the sort raises.
recommend(title, top_n) ==
    LET index == Resolve(title) IN
    IF index = <<>> THEN Returned(<<>>)
    ELSE IF Len(index) > 1 THEN ValueError
    ELSE Returned(Collect(index[1], SortDesc(sim[index[1]]), 1, {}, <<>>, top_n))

----------------------------------------------------------------------------
(* search_titles, lines 204-218 *)

\* df['title'].dropna().values
NonNullTitles(d) == SelectSeq(TitleColumn(d), notna)

RECURSIVE SearchFrom(_, _, _, _, _)
SearchFrom(titles, k, query_lower, matches, limit) ==
    IF k > Len(titles) THEN matches
    ELSE IF Contains(Lower(titles[k]), query_lower)
         THEN LET m == Append(matches, titles[k]) IN
              IF Len(m) >= limit THEN m
              ELSE SearchFrom(titles, k + 1, query_lower, m, limit)
         ELSE SearchFrom(titles, k + 1, query_lower, matches, limit)

\* Variant: the query is not lowercased.
search_titles_as_typed(query, limit) ==
    Returned(SearchFrom(NonNullTitles(df), 1, query, <<>>, limit))

search_titles(query, limit) ==
    Returned(SearchFrom(NonNullTitles(df), 1, Lower(query), <<>>, limit))

----------------------------------------------------------------------------
(* get_random, lines 221-224 *)

\* line 223
Clamp(count) ==
    LET lo == IF count > 1 THEN count ELSE 1
    IN  IF lo < 50 THEN lo ELSE 50

\* Series.sample(n): n positions of the series, none twice, in any order.
Draws(len, n) ==
    {p \in [1..n -> 1..len] : \A a, b \in 1..n : a # b => p[a] # p[b]}

\* The outcomes of get_random(count): sample raises ValueError when it is
\* asked for more than the series holds.
get_random(count) ==
    LET titles == NonNullTitles(df)
        n == Clamp(count)
    IN  IF n > Len(titles) THEN {ValueError}
        ELSE {Returned([k \in 1..n |-> titles[p[k]]]) : p \in Draws(Len(titles), n)}

----------------------------------------------------------------------------
(* Inputs *)

MaxRows == 4        \* rows of the dataset
MaxTopN == 3        \* top_n of recommend
MaxLimit == 2       \* limit of search_titles
MaxCount == 2       \* count of get_random
MaxEpisodes == 28   \* largest episode count a tagged row carries

Row(title, genre, type, source, studio, score, episodes, aired) ==
    [title |-> title, genre |-> genre, type |-> type, source |-> source,
     studio |-> studio, score |-> score, episodes |-> episodes, aired |-> aired]

ab == <<"a", "b">>
Ab == <<"A", "b">>
AB == <<"A", "B">>

\* The rows a dataset is drawn from: a title held by two different rows, a
\* case variant of it, a missing title, a title too short to tokenize on a
\* row with no other field, and a row sharing no term with the others.
AbAction == Row(ab, <<"Action">>, Word("TV"), NaN, NaN, Num(85), Num(240), <<"2015">>)
AbDrama == Row(ab, <<"Drama">>, NaN, NaN, NaN, NanNum, NanNum, NaN)
AbCapital == Row(Ab, <<"Action", ",", " ", "Drama">>, NaN, NaN, NaN, Num(72), BadNum, NaN)
Untitled == Row(NaN, <<"Action">>, Word("TV"), NaN, NaN, NanNum, Num(10), NaN)
TitleOnly == Row(<<"b">>, NaN, NaN, NaN, NaN, NanNum, NanNum, NaN)
SliceOfLife ==
    Row(<<"b", "a">>, <<"Slice", " ", "of", " ", "Life">>, Word("Movie"), Word("Manga"),
        <<"Madhouse", ",", " ", "Bones">>, BadNum, Num(0),
        <<"Apr", " ", "3", ",", " ", "1998", " ", "to", " ", "2005">>)

RowPool == {AbAction, AbDrama, AbCapital, Untitled, TitleOnly, SliceOfLife}

RECURSIVE SeqsOfLen(_, _)
SeqsOfLen(S, n) ==
    IF n = 0 THEN {<<>>}
    ELSE {Append(q, x) : q \in SeqsOfLen(S, n - 1), x \in S}

Datasets == UNION {SeqsOfLen(RowPool, n) : n \in 1..MaxRows}

\* Titles asked of recommend: stored titles, case variants, an unknown one.
QueryTitles == {ab, Ab, AB, <<"b">>, <<"B", "a">>, <<"a">>}

\* Strings asked of search_titles.
SearchQueries == {<<>>, <<"A">>, <<"B">>, ab, <<"b", "b">>}

\* Rows given to create_tags on its own.
EpisodeCells ==
    {NanNum, BadNum} \cup {Num(5 * h) : h \in (-3)..(2 * MaxEpisodes + 1)}

TagRows ==
    { Row(t, g, NaN, NaN, NaN, sc, e, a) :
        t \in {NaN, ab}, g \in {NaN, <<"Action", ",", " ", "Adventure">>},
        sc \in {NanNum, BadNum, Num(85), Num(59)}, e \in EpisodeCells,
        a \in {NaN, <<"2015">>} }

----------------------------------------------------------------------------
(* The program *)

Callers == {"c1", "c2"}

NoCall == [op |-> "none"]
NoRet == [kind |-> "none"]

Empty ==
    /\ tags = <<>>
    /\ metadata = <<>>
    /\ vectorized = <<>>
    /\ sim = <<>>
    /\ title_to_index = <<>>
    /\ title_to_index_lower = <<>>
    /\ call = [c \in Callers |-> NoCall]
    /\ ret = [c \in Callers |-> NoRet]

\* df after lines 17-23
Init ==
    /\ phase = "load"
    /\ df \in Datasets
    /\ Empty

\* line 101: df['tags'] = df.apply(create_tags, axis=1)
ApplyCreateTags ==
    /\ phase = "load"
    /\ tags' = [i \in DOMAIN df |-> create_tags(df[i])]
    /\ phase' = "tagged"
    /\ UNCHANGED <<df, metadata, vectorized, sim, title_to_index,
                   title_to_index_lower, call, ret>>

\* lines 104-109: the columns of df other than tags, row for row
StoreMetadata ==
    /\ phase = "tagged"
    /\ metadata' = df
    /\ phase' = "projected"
    /\ UNCHANGED <<df, tags, vectorized, sim, title_to_index,
                   title_to_index_lower, call, ret>>

\* lines 113-121: a ValueError here ends the import
Vectorize ==
    /\ phase = "projected"
    /\ LET corpus == [d \in DOMAIN tags |-> Analyze(tags[d])] IN
       IF VectorizerFails(corpus)
       THEN phase' = "failed" /\ UNCHANGED vectorized
       ELSE phase' = "vectorized" /\ vectorized' = FitTransform(tags)
    /\ UNCHANGED <<df, tags, metadata, sim, title_to_index,
                   title_to_index_lower, call, ret>>

\* line 126
ComputeSimilarity ==
    /\ phase = "vectorized"
    /\ sim' = cosine_similarity(vectorized)
    /\ phase' = "similar"
    /\ UNCHANGED <<df, tags, metadata, vectorized, title_to_index,
                   title_to_index_lower, call, ret>>

\* lines 129-130
BuildTitleIndex ==
    /\ phase = "similar"
    /\ title_to_index' = drop_duplicates(Series(TitleColumn(df)))
    /\ title_to_index_lower' = drop_duplicates(Series(StrLower(TitleColumn(df))))
    /\ phase' = "ready"
    /\ UNCHANGED <<df, tags, metadata, vectorized, sim, call, ret>>

Build ==
    \/ ApplyCreateTags
    \/ StoreMetadata
    \/ Vectorize
    \/ ComputeSimilarity
    \/ BuildTitleIndex

\* Variant: the scores are sorted where they are, in the matrix row.
RecommendSortingInPlace(c, title, top_n) ==
    /\ phase = "ready"
    /\ call[c] = NoCall
    /\ call' = [call EXCEPT ![c] = [op |-> "recommend", title |-> title, top_n |-> top_n]]
    /\ ret' = [ret EXCEPT ![c] = recommend(title, top_n)]
    /\ LET index == Resolve(title) IN
       IF Len(index) = 1
       THEN LET row == sim[index[1]]
                order == SortDesc(row)
            IN  sim' = [sim EXCEPT ![index[1]] = [k \in DOMAIN row |-> row[order[k]]]]
       ELSE sim' = sim
    /\ UNCHANGED <<phase, df, tags, metadata, vectorized, title_to_index,
                   title_to_index_lower>>

\* A call of recommend by caller c, start to end.
Recommend(c, title, top_n) ==
    /\ phase = "ready"
    /\ call[c] = NoCall
    /\ call' = [call EXCEPT ![c] = [op |-> "recommend", title |-> title, top_n |-> top_n]]
    /\ ret' = [ret EXCEPT ![c] = recommend(title, top_n)]
    /\ UNCHANGED <<phase, built>>

SearchTitles(c, query, limit) ==
    /\ phase = "ready"
    /\ call[c] = NoCall
    /\ call' = [call EXCEPT ![c] = [op |-> "search_titles", query |-> query, limit |-> limit]]
    /\ ret' = [ret EXCEPT ![c] = search_titles(query, limit)]
    /\ UNCHANGED <<phase, built>>

GetRandom(c, count) ==
    /\ phase = "ready"
    /\ call[c] = NoCall
    /\ call' = [call EXCEPT ![c] = [op |-> "get_random", count |-> count]]
    /\ \E outcome \in get_random(count) : ret' = [ret EXCEPT ![c] = outcome]
    /\ UNCHANGED <<phase, built>>

\* The caller takes the result; it may call again.
Return(c) ==
    /\ call[c] # NoCall
    /\ call' = [call EXCEPT ![c] = NoCall]
    /\ ret' = [ret EXCEPT ![c] = NoRet]
    /\ UNCHANGED <<phase, built>>

Query(c) ==
    \/ \E title \in QueryTitles, top_n \in 1..MaxTopN : Recommend(c, title, top_n)
    \/ \E query \in SearchQueries, limit \in 1..MaxLimit : SearchTitles(c, query, limit)
    \/ \E count \in 0..MaxCount : GetRandom(c, count)
    \/ Return(c)

\* One caller at a time.
Next == Build \/ Query("c1")

Spec == Init /\ [][Next]_vars

\* create_tags on single rows.
InitTags ==
    /\ phase = "load"
    /\ df \in {<<r>> : r \in TagRows}
    /\ Empty

SpecTags == InitTags /\ [][ApplyCreateTags]_vars

\* Two callers at once, over a few datasets: titles that resolve, titles
\* held twice, a missing title, and one too small for the vectorizer.
ConcDatasets ==
    { <<AbCapital, AbDrama, AbAction>>,
      <<AbAction, AbCapital, TitleOnly>>,
      <<AbDrama, AbAction, AbAction, AbCapital>>,
      <<Untitled, AbAction, AbCapital, SliceOfLife>>,
      <<AbAction, AbDrama>> }

InitConc ==
    /\ phase = "load"
    /\ df \in ConcDatasets
    /\ Empty

NextConc == Build \/ \E c \in Callers : Query(c)

SpecConc == InitConc /\ [][NextConc]_vars

----------------------------------------------------------------------------
(* Properties *)

Min(a, b) == IF a < b THEN a ELSE b

Rows == DOMAIN df

\* The recommend calls in flight whose title resolves to one row.
Resolved(c) ==
    /\ call[c].op = "recommend"
    /\ Len(Resolve(call[c].title)) = 1

ResolvedRow(c) == Resolve(call[c].title)[1]

\* The titles of the rows other than r; a missing title is one title.
OtherTitles(r) == {metadata[i].title : i \in Rows \ {r}}

\* C1: when the title of a recommend call resolves to a row r, the call
\* returns a list in which no record was built from row r and no two
\* records carry the same title.
C1_NoSelfNoRepeatedTitle ==
    \A c \in Callers : Resolved(c) =>
        /\ ret[c].kind = "return"
        /\ LET recs == ret[c].value IN
           /\ \A k \in DOMAIN recs : recs[k].row # ResolvedRow(c)
           /\ \A j, k \in DOMAIN recs : j # k => recs[j].title # recs[k].title

\* A call that left out its own row and a row repeating an emitted title.
C1_Witness ==
    \E c \in Callers :
        /\ Resolved(c)
        /\ ret[c].kind = "return"
        /\ Len(ret[c].value) >= 1
        /\ Len(ret[c].value) < call[c].top_n
        /\ Len(ret[c].value) < Len(df) - 1

\* C2: when the title of a recommend call resolves to a row r, the list
\* returned has exactly min(top_n, number of distinct titles among the rows
\* other than r) records.
C2_LengthIsMinOfTopNAndOtherTitles ==
    \A c \in Callers : Resolved(c) =>
        /\ ret[c].kind = "return"
        /\ Len(ret[c].value) =
              Min(call[c].top_n, Cardinality(OtherTitles(ResolvedRow(c))))

\* A call cut at top_n although more titles were left.
C2_Witness ==
    \E c \in Callers :
        /\ Resolved(c)
        /\ ret[c].kind = "return"
        /\ Len(ret[c].value) = call[c].top_n
        /\ call[c].top_n < Cardinality(OtherTitles(ResolvedRow(c)))

\* C3: after the build every label of the exact-title map and of the
\* lowercased-title map occurs once, so a title resolves to one row or to
\* none.
C3_TitleMapsDeduplicated ==
    phase = "ready" =>
        /\ \A j, k \in DOMAIN title_to_index :
              title_to_index[j].label = title_to_index[k].label => j = k
        /\ \A j, k \in DOMAIN title_to_index_lower :
              title_to_index_lower[j].label = title_to_index_lower[k].label => j = k
        /\ \A q \in QueryTitles : Len(Resolve(q)) <= 1

\* No other row's title equals the title of row i ignoring case.
Unambiguous(i) ==
    \A j \in Rows \ {i} :
        notna(df[j].title) => Lower(df[j].title) # Lower(df[i].title)

\* C4: a recommend call whose title equals an unambiguous stored title S
\* ignoring case returns what recommend(S, top_n) returns.
C4_CaseInsensitiveResolution ==
    \A c \in Callers : call[c].op = "recommend" =>
        \A i \in Rows :
            ( /\ notna(df[i].title)
              /\ Unambiguous(i)
              /\ Lower(call[c].title) = Lower(df[i].title) )
            => ret[c] = recommend(df[i].title, call[c].top_n)

\* A query in another case than the stored title, with recommendations.
C4_Witness ==
    \E c \in Callers : \E i \in Rows :
        /\ call[c].op = "recommend"
        /\ notna(df[i].title)
        /\ Unambiguous(i)
        /\ Lower(call[c].title) = Lower(df[i].title)
        /\ call[c].title # df[i].title
        /\ ret[c].kind = "return"
        /\ Len(ret[c].value) >= 1

\* The non-null titles that contain the query ignoring case, in dataset order.
Matching(query) ==
    LET hit(t) == Contains(Lower(t), Lower(query))
    IN  SelectSeq(NonNullTitles(df), hit)

\* C5: search_titles(q, limit) returns the first min(limit, m) of the m
\* non-null titles that contain q ignoring case, in dataset order.
C5_SearchReturnsFirstMatches ==
    \A c \in Callers : call[c].op = "search_titles" =>
        LET all == Matching(call[c].query) IN
        /\ ret[c].kind = "return"
        /\ ret[c].value = SubSeq(all, 1, Min(call[c].limit, Len(all)))
        /\ \A k \in DOMAIN ret[c].value :
              /\ notna(ret[c].value[k])
              /\ Contains(Lower(ret[c].value[k]), Lower(call[c].query))

\* A search cut at limit, over a dataset with a missing title and a title
\* that does not match, for a query in another case than the titles.
C5_Witness ==
    \E c \in Callers :
        /\ call[c].op = "search_titles"
        /\ Len(ret[c].value) = call[c].limit
        /\ Len(Matching(call[c].query)) > call[c].limit
        /\ Len(Matching(call[c].query)) < Len(NonNullTitles(df))
        /\ Len(NonNullTitles(df)) < Len(df)
        /\ Lower(call[c].query) # call[c].query

\* C6: get_random(count) with c = min(max(1, count), 50), over a dataset
\* with at least c non-null titles, returns c pairwise distinct titles, each
\* a non-null title of the dataset.
C6_RandomTitlesDistinct ==
    \A c \in Callers : call[c].op = "get_random" =>
        LET n == Clamp(call[c].count)
            titles == NonNullTitles(df)
        IN  Len(titles) >= n =>
                /\ ret[c].kind = "return"
                /\ Len(ret[c].value) = n
                /\ \A j, k \in DOMAIN ret[c].value :
                      j # k => ret[c].value[j] # ret[c].value[k]
                /\ \A k \in DOMAIN ret[c].value :
                      /\ notna(ret[c].value[k])
                      /\ ret[c].value[k] \in Range(titles)

EpisodeBuckets == {"movie_format", "short_series", "standard_series", "long_series"}

IsEpisodeBucket(u) == u \in EpisodeBuckets

\* C7: a row whose episodes cell parses to the integer e gets exactly one
\* episode token: movie_format iff e = 1, short_series iff 2 <= e <= 13,
\* standard_series iff 14 <= e <= 26, long_series iff e > 26; a row whose
\* cell is missing or does not parse gets none.
C7_EpisodeBucket ==
    phase = "tagged" =>
        \A i \in Rows :
            LET cell == df[i].episodes
                toks == SelectSeq(tags[i], IsEpisodeBucket)
            IN  IF cell.kind = "num"
                THEN LET e == IntOf(cell.tenths) IN
                     /\ Len(toks) = 1
                     /\ toks[1] = "movie_format" <=> e = 1
                     /\ toks[1] = "short_series" <=> (2 <= e /\ e <= 13)
                     /\ toks[1] = "standard_series" <=> (14 <= e /\ e <= 26)
                     /\ toks[1] = "long_series" <=> e > 26
                ELSE toks = <<>>

IsZeroRow(i) == \A t \in DOMAIN vectorized[i] : vectorized[i][t] = 0

SameCallSameResult ==
    \A c, d \in Callers :
        (call[c] = call[d] /\ call[c].op \in {"recommend", "search_titles"})
            => ret[c] = ret[d]

\* C9: once the build is done, every step (a call of any caller that
\* returns or raises, or a caller taking its result) leaves the dataset,
\* the tags, the metadata, both matrices and both title maps as they were,
\* and equal recommend or search_titles calls get equal results whatever ran
\* in between.
C9_QueriesOnlyRead ==
    [][phase = "ready" =>
          /\ phase' = "ready"
          /\ built' = built
          /\ SameCallSameResult']_vars

\* Both callers hold the result of the same recommend call.
C9_Witness ==
    /\ call["c1"].op = "recommend"
    /\ call["c2"] = call["c1"]
    /\ ret["c1"].kind = "return"
    /\ Len(ret["c1"].value) >= 1
    /\ ret["c2"] = ret["c1"]

\* C10: the records of a recommend call come in non-increasing similarity
\* to the resolved row r, rows of equal similarity in ascending row order;
\* the record emitted for a title is built from the row of that title with
\* the highest similarity, the lowest such row on ties.
C10_OrderedBySimilarityThenRow ==
    \A c \in Callers : (Resolved(c) /\ ret[c].kind = "return") =>
        LET r == ResolvedRow(c)
            recs == ret[c].value
        IN  /\ \A j, k \in DOMAIN recs : j < k =>
                  /\ ~Less(sim[r][recs[j].row], sim[r][recs[k].row])
                  /\ recs[j].similarity >= recs[k].similarity
                  /\ sim[r][recs[j].row] = sim[r][recs[k].row]
                        => recs[j].row < recs[k].row
            /\ \A k \in DOMAIN recs : \A i \in Rows \ {r, recs[k].row} :
                  metadata[i].title = recs[k].title =>
                      \/ Less(sim[r][i], sim[r][recs[k].row])
                      \/ sim[r][i] = sim[r][recs[k].row] /\ recs[k].row < i

\* A call whose first record comes from a row that ties, at a non-zero
\* similarity, with a later row of the same title, and whose second record
\* is less similar.
C10_Witness ==
    \E c \in Callers :
        /\ Resolved(c)
        /\ ret[c].kind = "return"
        /\ Len(ret[c].value) >= 2
        /\ LET r == ResolvedRow(c)
               e == ret[c].value[1].row
           IN  /\ \E i \in Rows \ {r} :
                     /\ e < i
                     /\ metadata[i].title = metadata[e].title
                     /\ sim[r][i] = sim[r][e]
               /\ sim[r][e] # Zero
               /\ Less(sim[r][ret[c].value[2].row], sim[r][e])

====
